---- MODULE Spec2Model ----
(***************************************************************************)
(* Model of the two tool-calling components of the web console, Memento    *)
(* (src/src/components/memento/Memento.tsx) and GeminiMatrix (the          *)
(* component listed in src/README.md), together with the boundary of the   *)
(* live-API client they call (client.on/off, client.send,                  *)
(* client.sendToolResponse, setConfig).  The client itself is not part of  *)
(* the sources; its behaviour is taken from the design document and those  *)
(* definitions are marked as such in the comments.                         *)
(*                                                                         *)
(* One behaviour covers one session lifetime (Idle -> AwaitingSetupAck ->  *)
(* Active -> Closed).  JavaScript runs one callback at a time, so every    *)
(* action is one macrotask/microtask: a dispatched event, a resumed await, *)
(* a fired timer, a React commit.                                          *)
(***************************************************************************)
EXTENDS Integers, Sequences, FiniteSets, TLC

(***************************************************************************)
(* Bounds of the model.                                                    *)
(***************************************************************************)
MaxInvocations == 2    \* invocations the service issues in a session
MaxBatch == 2          \* invocations in one ToolCall message
MaxMounts == 2         \* component mounts in a session
MaxEdits == 1          \* cell edits the user submits (specification SpecEdit)
MaxFewInvocations == 1 \* invocations the service issues (specifications SpecFew, SpecEdit)
MaxN == 2              \* side of the matrices the helpers are applied to (specification SpecHelpers)
MaxBlock == 2          \* rows, and cells of a row, of a value block (specification SpecHelpers)
MaxText == 2           \* characters of a file's text and of written contents (specification SpecHelpers)

(***************************************************************************)
(* Program constants.                                                      *)
(***************************************************************************)
MatrixSize == 10       \* newMatrix(10, ...)
TimerDelay == 200      \* setTimeout(..., 200)

Undefined == "undefined"           \* the JavaScript value undefined (also a hole of an array)

(***************************************************************************)
(* Pure helpers of GeminiMatrix.  Arrays are sequences; the JavaScript     *)
(* index i is the sequence index i + 1.                                    *)
(***************************************************************************)
range(start, end) == [i \in 1..(IF end > start THEN end - start ELSE 0) |-> i - 1 + start]

newMatrix(size, fill) == [r \in 1..Len(range(0, size)) |-> [c \in 1..size |-> fill]]

resolve_indexBeforeLast(index, length) == IF index < 0 THEN length + index ELSE index

resolve_index(index, length) == IF index < 0 THEN length + index + 1 ELSE index

\* row[j] = v for a JavaScript array: an index past the end grows the array
\* (leaving holes), a negative index sets a property and leaves the elements.
ArraySet(row, j, v) ==
    IF j < 0 THEN row
    ELSE IF j < Len(row) THEN [row EXCEPT ![j + 1] = v]
    ELSE [i \in 1..(j + 1) |-> IF i <= Len(row) THEN row[i] ELSE IF i = j + 1 THEN v ELSE Undefined]

\* row[j] read from a JavaScript array.
ArrayGet(row, j) == IF j >= 0 /\ j < Len(row) THEN row[j + 1] ELSE Undefined

HasRow(matrix, r) == r >= 0 /\ r < Len(matrix)

RECURSIVE SetRowLoopAnyEntry(_, _, _, _)
SetRowLoopAnyEntry(row, newStartCol, vrow, colIndex) ==
    IF colIndex >= newStartCol + Len(vrow) THEN row
    ELSE SetRowLoopAnyEntry(ArraySet(row, colIndex, vrow[colIndex - newStartCol + 1]),
                            newStartCol, vrow, colIndex + 1)

\* The inner loop of setMatrixBlock over one row of value.
RECURSIVE SetRowLoop(_, _, _, _)
SetRowLoop(row, newStartCol, vrow, colIndex) ==
    IF colIndex >= newStartCol + Len(vrow) THEN row
    ELSE SetRowLoop(
           IF vrow[colIndex - newStartCol + 1] # Undefined
             THEN ArraySet(row, colIndex, vrow[colIndex - newStartCol + 1])
             ELSE row,
           newStartCol, vrow, colIndex + 1)

\* The outer loop of setMatrixBlock.  cloned[rowIndex] of a missing row is
\* undefined and the first assignment into it throws; the catch returns the
\* clone as it is at that point.  A row of value that is undefined (null) is
\* skipped by the code; it is written <<>> here, which the inner loop skips too.
RECURSIVE SetBlockLoop(_, _, _, _, _)
SetBlockLoop(cloned, value, newStartRow, newStartCol, rowIndex) ==
    IF rowIndex >= newStartRow + Len(value) THEN cloned
    ELSE LET vrow == value[rowIndex - newStartRow + 1] IN
         IF ~HasRow(cloned, rowIndex)
           THEN IF \E j \in 1..Len(vrow) : vrow[j] # Undefined
                  THEN cloned
                  ELSE SetBlockLoop(cloned, value, newStartRow, newStartCol, rowIndex + 1)
         ELSE SetBlockLoop(
                [cloned EXCEPT ![rowIndex + 1] = SetRowLoop(@, newStartCol, vrow, newStartCol)],
                value, newStartRow, newStartCol, rowIndex + 1)

setMatrixBlock(matrix, startRow, startCol, value) ==
    LET newStartRow == resolve_index(startRow, Len(matrix))
        newStartCol == resolve_index(startCol, Len(matrix))
    IN  SetBlockLoop(matrix, value, newStartRow, newStartCol, newStartRow)

\* The block of rows and columns a start/end pair resolves to.
BlockRows(matrix, startRow, endRow) ==
    range(resolve_index(startRow, Len(matrix)), resolve_index(endRow, Len(matrix)))

BlockCols(matrix, startCol, endCol) ==
    range(resolve_index(startCol, Len(matrix)), resolve_index(endCol, Len(matrix)))

\* matrix[rowIndex][colIndex] of a missing row throws a TypeError: in
\* updateMatrixBlock and selectMatrixBlock nothing catches it.
BlockThrows(matrix, startRow, startCol, endRow, endCol) ==
    LET rows == BlockRows(matrix, startRow, endRow)
        cols == BlockCols(matrix, startCol, endCol)
    IN  \E i \in 1..Len(rows) : ~HasRow(matrix, rows[i]) /\ Len(cols) > 0

RECURSIVE FillRowLoop(_, _, _, _)
FillRowLoop(row, colIndex, newEndCol, value) ==
    IF colIndex >= newEndCol THEN row
    ELSE FillRowLoop(ArraySet(row, colIndex, value), colIndex + 1, newEndCol, value)

\* The result of updateMatrixBlock when it does not throw.
updateMatrixBlock(matrix, startRow, startCol, endRow, endCol, value) ==
    LET newStartRow == resolve_index(startRow, Len(matrix))
        newStartCol == resolve_index(startCol, Len(matrix))
        newEndRow == resolve_index(endRow, Len(matrix))
        newEndCol == resolve_index(endCol, Len(matrix))
    IN  [r \in 1..Len(matrix) |->
           IF r - 1 >= newStartRow /\ r - 1 < newEndRow
             THEN FillRowLoop(matrix[r], newStartCol, newEndCol, value)
             ELSE matrix[r]]

\* The result of selectMatrixBlock when it does not throw.
selectMatrixBlock(matrix, startRow, startCol, endRow, endCol) ==
    LET rows == BlockRows(matrix, startRow, endRow)
        cols == BlockCols(matrix, startCol, endCol)
    IN  [i \in 1..Len(rows) |->
           [j \in 1..Len(cols) |->
              IF HasRow(matrix, rows[i]) THEN ArrayGet(matrix[rows[i] + 1], cols[j]) ELSE Undefined]]

(***************************************************************************)
(* JSON.parse and JSON.stringify on the style strings the model uses.  An  *)
(* object is written Obj(...), its JSON text {...}.                        *)
(***************************************************************************)
DefaultStyle == "Obj(border=1px solid gray,width=80px,height=40px)"

JSONTable ==
    { <<"{}", "Obj()">>,
      <<"{\"color\":\"red\"}", "Obj(color=red)">>,
      <<"{\"border\":\"1px solid gray\",\"width\":\"80px\",\"height\":\"40px\"}", DefaultStyle>> }

\* JSON.parse(text) throws a SyntaxError on a text that is not JSON.
JSONparseThrows(text) == ~\E p \in JSONTable : p[1] = text

JSONparse(text) == (CHOOSE p \in JSONTable : p[1] = text)[2]

JSONstringify(obj) ==
    IF \E p \in JSONTable : p[2] = obj THEN (CHOOSE p \in JSONTable : p[2] = obj)[1] ELSE Undefined

\* value.map(row => row.map(style => JSON.parse(style)))
ParseMatrix(m) == [i \in 1..Len(m) |-> [j \in 1..Len(m[i]) |-> JSONparse(m[i][j])]]

\* result.map(row => row.map(style => JSON.stringify(style)))
StringifyMatrix(m) == [i \in 1..Len(m) |-> [j \in 1..Len(m[i]) |-> JSONstringify(m[i][j])]]

(***************************************************************************)
(* The origin private file system Memento works on: a map from file names  *)
(* to their text (a sequence of characters) and a set of directory names.  *)
(***************************************************************************)
NoFiles == [n \in {} |-> <<>>]

FileText(fs, name) == IF name \in DOMAIN fs THEN fs[name] ELSE <<>>

PutFile(fs, name, text) == [n \in DOMAIN fs \cup {name} |-> IF n = name THEN text ELSE fs[n]]

\* getFileHandle(name, {create: true}); createWritable({keepExistingData});
\* write(contents); close().  The writable starts empty or as a copy of the
\* file, its cursor is at offset 0, and write() overwrites from the cursor.
writeToFile(fs, name, contents, append) ==
    LET old == FileText(fs, name)
        kept == IF append /\ Len(old) > Len(contents)
                  THEN SubSeq(old, Len(contents) + 1, Len(old)) ELSE <<>>
    IN  PutFile(fs, name, contents \o kept)

\* getFileHandle(name, {create: true}) creates the file it reads.
readTxtFile(fs, name) == FileText(fs, name)

readTxtFileCreates(fs, name) == IF name \in DOMAIN fs THEN fs ELSE PutFile(fs, name, <<>>)

listFilesInCurrentFolder(fs, dirs) ==
    {[name |-> n, type |-> "file"] : n \in DOMAIN fs} \cup {[name |-> d, type |-> "directory"] : d \in dirs}

(***************************************************************************)
(* Function declarations.                                                  *)
(***************************************************************************)
MementoFunctions == {"render_html", "ls", "writeTo", "readTxtFile"}

MatrixFunctions == {"getDataBlock", "setDataBlock", "getStyleBlock", "setStylesBlock", "gemini"}

\* The functions declared by the configuration a component sets.
Declared(cfg) ==
    CASE cfg = "Memento" -> MementoFunctions
      [] cfg = "GeminiMatrix" -> MatrixFunctions
      [] OTHER -> {}

\* The function names a component's onToolCall switch has a case for.
Handles(component) == Declared(component)

\* The arguments the service passes in the model, by function.
ArgsOf(name) ==
    CASE name = "render_html" -> {[htmlText |-> "<b>hi</b>"]}
      [] name = "ls" -> {[verbose |-> FALSE]}
      [] name = "writeTo" -> {[fileName |-> "notes.txt", contents |-> <<"b">>],
                              [fileName |-> "notes.txt", contents |-> <<"c">>, appendFile |-> FALSE]}
      [] name = "readTxtFile" -> {[fileName |-> "notes.txt"]}
      [] name = "gemini" -> {[prompt |-> "who won"]}
      [] name = "setDataBlock" -> {[startRow |-> 0, startCol |-> 0, value |-> <<<<"x">>>>],
                                   [startRow |-> 9, startCol |-> 9, value |-> <<<<"y", "z">>, <<"w">>>>]}
      [] name = "setStylesBlock" -> {[startRow |-> 0, startCol |-> 0, value |-> <<<<"{\"color\":\"red\"}">>>>],
                                     [startRow |-> 0, startCol |-> 0, value |-> <<<<"color: red">>>>]}
      [] name = "getDataBlock" -> {[startRow |-> 0, startCol |-> 0, endRow |-> 1, endCol |-> 1],
                                   [startRow |-> 9, startCol |-> 9, endRow |-> 11, endCol |-> -1]}
      [] name = "getStyleBlock" -> {[startRow |-> 0, startCol |-> 0, endRow |-> 1, endCol |-> 1]}
      [] OTHER -> {}

(***************************************************************************)
(* State.                                                                  *)
(***************************************************************************)
VARIABLES
    app,            \* the component the application renders: Memento | GeminiMatrix
    session,        \* Idle | AwaitingSetupAck | Active | Closed
    config,         \* the configuration last given to setConfig
    sessionConfig,  \* the configuration the setup frame of the session carried
    invocations,    \* invocations[id]: Pending | Answered | Cancelled
    calls,          \* the ToolCall messages received, in arrival order, each with the
                    \* handlers that were called for it
    component,      \* the mounted component: none | Memento | GeminiMatrix
    mounts,         \* number of mounts so far
    handlers,       \* the handlers registered on "toolcall"
    onToolCall,     \* the handler the last subscribe effect registered
    data,           \* GeminiMatrix: useState data
    cellStyles,     \* GeminiMatrix: useState cellStyles
    editCell,       \* GeminiMatrix: useState editCell, <<>> or <<row, col>>
    edits,          \* number of cell edits submitted
    htmlString,     \* Memento: useState htmlString
    files,          \* the files of the origin private file system
    dirs,           \* its directories
    tasks,          \* handler invocations suspended at an await
    timers,         \* setTimeout callbacks not yet run, in the order they were set
    issued,         \* number of sendToolResponse / sendUserMessage calls so far
    failed,         \* ids whose handler invocation ended in a rejected promise
    sent,           \* the calls made to client.send / client.sendToolResponse
    wire,           \* the frames transmitted, in order
    closedPending,    \* history: ids that were Pending when the session closed
    unmountedPending, \* history: ids Pending, with a handler awaiting or a timer set, at an unmount
    cancelled,        \* history: ids a ToolCallCancellation listed while Pending
    call              \* one application of a helper function: its arguments and result
                      \* (specification SpecHelpers)

vars == <<call, app, session, config, sessionConfig, invocations, calls, component, mounts,
          handlers, onToolCall, data, cellStyles, editCell, edits, htmlString,
          files, dirs, tasks, timers, issued, failed, sent, wire,
          closedPending, unmountedPending, cancelled>>

history == <<closedPending, unmountedPending, cancelled>>

NoHandler == [component |-> "none", data |-> <<>>, cellStyles |-> <<>>]

\* The onToolCall closure a render of the component creates: GeminiMatrix's
\* useCallback captures data and cellStyles, Memento's captures the client only.
Closure(c, d, st) ==
    IF c = "GeminiMatrix"
      THEN [component |-> c, data |-> d, cellStyles |-> st]
      ELSE [component |-> c, data |-> <<>>, cellStyles |-> <<>>]

Ids(toolCall) == [i \in 1..Len(toolCall) |-> toolCall[i].id]

\* A response dictionary: its top-level key and that key's value.  of is the
\* id of the invocation the response was computed for, now the block as the
\* state updates made so far leave it (both history only).
ResponseNow(key, text, rows, entries, id, now) ==
    [key |-> key, text |-> text, rows |-> rows, files |-> entries, of |-> id, now |-> now]

Response(key, text, rows, entries, id) == ResponseNow(key, text, rows, entries, id, rows)

NoResponse == Response("", <<>>, <<>>, {}, 0)

\* No helper function is being applied.
NoCall == [fn |-> "none"]

Success == <<"sucess", "true">>

(***************************************************************************)
(* sendToolResponse and sendUserMessage: both only set a timer.  c is the  *)
(* record of what a handler run changes.                                   *)
(***************************************************************************)
sendToolResponse(c, toolCall, response) ==
    [c EXCEPT !.issued = @ + 1,
              !.timers = Append(@, [kind |-> "toolResponse", delay |-> TimerDelay,
                                    seq |-> c.issued + 1, ids |-> Ids(toolCall),
                                    response |-> response, text |-> <<>>,
                                    issuedIn |-> c.session,
                                    ofStatus |-> c.invocations[response.of]])]

sendUserMessage(c, text) ==
    [c EXCEPT !.issued = @ + 1,
              !.timers = Append(@, [kind |-> "clientContent", delay |-> TimerDelay,
                                    seq |-> c.issued + 1, ids |-> <<>>,
                                    response |-> NoResponse, text |-> text,
                                    issuedIn |-> c.session, ofStatus |-> ""])]

Suspend(c, toolCall, fc) ==
    [c EXCEPT !.tasks = Append(@, [id |-> fc.id, name |-> fc.name, args |-> fc.args,
                                   toolCall |-> toolCall])]

Reject(c, fc) == [c EXCEPT !.failed = @ \cup {fc.id}]

(***************************************************************************)
(* The body of the async arrow function onToolCall runs for one function   *)
(* call, up to its first await or its end.                                 *)
(***************************************************************************)
MementoCaseAnswersAny(c, toolCall, fc) ==
    CASE fc.name \in {"ls", "writeTo", "readTxtFile"} -> Suspend(c, toolCall, fc)
      [] OTHER ->
           sendToolResponse([c EXCEPT !.htmlString = IF fc.name = "render_html" THEN fc.args.htmlText ELSE @],
                            toolCall, Response("response", <<"output">> \o Success, <<>>, {}, fc.id))

MementoCase(c, toolCall, fc) ==
    CASE fc.name = "render_html" ->
           sendToolResponse([c EXCEPT !.htmlString = fc.args.htmlText], toolCall,
                            Response("response", <<"output">> \o Success, <<>>, {}, fc.id))
      [] fc.name \in {"ls", "writeTo", "readTxtFile"} -> Suspend(c, toolCall, fc)
      [] OTHER -> c

MatrixCase(c, h, toolCall, fc) ==
    CASE fc.name = "gemini" -> Suspend(c, toolCall, fc)
      [] fc.name = "setDataBlock" ->
           sendToolResponse(
             [c EXCEPT !.data = setMatrixBlock(@, fc.args.startRow, fc.args.startCol, fc.args.value)],
             toolCall, Response("output", Success, <<>>, {}, fc.id))
      [] fc.name = "setStylesBlock" ->
           IF \E i \in 1..Len(fc.args.value) : \E j \in 1..Len(fc.args.value[i]) :
                 JSONparseThrows(fc.args.value[i][j])
             THEN Reject(c, fc)
             ELSE sendToolResponse(
                    [c EXCEPT !.cellStyles = setMatrixBlock(@, fc.args.startRow, fc.args.startCol,
                                                            ParseMatrix(fc.args.value))],
                    toolCall, Response("output", Success, <<>>, {}, fc.id))
      [] fc.name = "getDataBlock" ->
           IF BlockThrows(h.data, fc.args.startRow, fc.args.startCol, fc.args.endRow, fc.args.endCol)
             THEN Reject(c, fc)
             ELSE sendToolResponse(c, toolCall,
                    ResponseNow("data", <<>>,
                                selectMatrixBlock(h.data, fc.args.startRow, fc.args.startCol,
                                                  fc.args.endRow, fc.args.endCol), {}, fc.id,
                                selectMatrixBlock(c.data, fc.args.startRow, fc.args.startCol,
                                                  fc.args.endRow, fc.args.endCol)))
      [] fc.name = "getStyleBlock" ->
           IF BlockThrows(h.cellStyles, fc.args.startRow, fc.args.startCol, fc.args.endRow, fc.args.endCol)
             THEN Reject(c, fc)
             ELSE sendToolResponse(c, toolCall,
                    ResponseNow("styles", <<>>,
                                StringifyMatrix(selectMatrixBlock(h.cellStyles, fc.args.startRow,
                                                                  fc.args.startCol, fc.args.endRow,
                                                                  fc.args.endCol)),
                                {}, fc.id,
                                StringifyMatrix(selectMatrixBlock(c.cellStyles, fc.args.startRow,
                                                                  fc.args.startCol, fc.args.endRow,
                                                                  fc.args.endCol))))
      [] OTHER -> c

\* toolCall.functionCalls.forEach(async (fc) => ...) of the handler h.
RECURSIVE ForEach(_, _, _, _)
ForEach(c, h, toolCall, i) ==
    IF i > Len(toolCall) THEN c
    ELSE ForEach(IF h.component = "Memento" THEN MementoCase(c, toolCall, toolCall[i])
                 ELSE MatrixCase(c, h, toolCall, toolCall[i]),
                 h, toolCall, i + 1)

\* The event emitter calls every registered handler once.
RECURSIVE Emit(_, _, _)
Emit(c, hs, toolCall) ==
    IF hs = {} THEN c
    ELSE LET h == CHOOSE x \in hs : TRUE
         IN  Emit(ForEach(c, h, toolCall, 1), hs \ {h}, toolCall)

(***************************************************************************)
(* The client, from the design document: session state machine, tool-call  *)
(* correlator, connection manager.                                         *)
(***************************************************************************)
Pending(inv) == {id \in 1..Len(inv) : inv[id] = "Pending"}

CancelNone(inv) == inv

\* Closing a session marks the pending invocations Cancelled.
CancelAll(inv) == [id \in 1..Len(inv) |-> IF inv[id] = "Pending" THEN "Cancelled" ELSE inv[id]]

\* A ToolCallCancellation marks the listed ids Cancelled.
Cancel(inv, ids) == [id \in 1..Len(inv) |-> IF id \in ids /\ inv[id] = "Pending" THEN "Cancelled" ELSE inv[id]]

AcceptedAnyStatus(sess, inv, id) == sess = "Active" /\ id \in 1..Len(inv)

\* respond(id, payload) is accepted for a Pending id of an Active session.
Accepted(sess, inv, id) == sess = "Active" /\ id \in 1..Len(inv) /\ inv[id] = "Pending"

\* respond on a Cancelled id is a no-op; on an unknown or Answered id it
\* fails with UnknownInvocationError.
RespondOutcome(sess, inv, ids) ==
    IF \E i \in 1..Len(ids) : Accepted(sess, inv, ids[i]) THEN "ok"
    ELSE IF \E i \in 1..Len(ids) : ~(ids[i] \in 1..Len(inv) /\ inv[ids[i]] = "Cancelled")
      THEN "UnknownInvocationError"
    ELSE "noop"

SendOutcomeAlwaysOk(sess) == "ok"

\* send(frame) fails with NotConnectedError outside Active.
SendOutcome(sess) == IF sess = "Active" THEN "ok" ELSE "NotConnectedError"

ConfigAfterSetReplaced(sessCfg, cfg) == cfg

\* The session's configuration after setConfig(cfg): it was sent with the
\* setup frame and is immutable.
ConfigAfterSet(sessCfg, cfg) == sessCfg

SetupFrame(cfg) ==
    [kind |-> "setup", seq |-> 0, entries |-> <<>>, text |-> <<>>, config |-> cfg,
     issuedIn |-> "Idle", firedIn |-> "Idle"]

\* The frames a connect puts on the wire.
ConnectFrames(cfg) == <<SetupFrame(cfg)>>

(***************************************************************************)
(* Timers.  A timer runs only after every timer that was set before it     *)
(* with a delay that is not longer; all delays are 200 ms.                 *)
(***************************************************************************)
NextTimersAnyOrder(q) == 1..Len(q)

NextTimers(q) == {i \in 1..Len(q) : \A j \in 1..(i - 1) : q[j].delay > q[i].delay}

Remove(q, i) == SubSeq(q, 1, i - 1) \o SubSeq(q, i + 1, Len(q))

SubscribeEffectNoCleanup(hs, old, new) == hs \cup {new}

\* The effect of the GeminiMatrix / Memento subscribe effect on the handlers
\* registered: the cleanup detaches old, the effect attaches new.
SubscribeEffect(hs, old, new) == (hs \ {old}) \cup {new}

UnsubscribeEffect(hs, old) == hs \ {old}

(***************************************************************************)
(* Initial state: nothing mounted, no session.                             *)
(***************************************************************************)
InitApp ==
    /\ session = "Idle"
    /\ config = "default"
    /\ sessionConfig = "none"
    /\ invocations = <<>>
    /\ calls = <<>>
    /\ component = "none"
    /\ mounts = 0
    /\ handlers = {}
    /\ onToolCall = NoHandler
    /\ data = <<>>
    /\ cellStyles = <<>>
    /\ editCell = <<>>
    /\ edits = 0
    /\ htmlString = ""
    /\ files = NoFiles
    /\ dirs = {}
    /\ tasks = <<>>
    /\ timers = <<>>
    /\ issued = 0
    /\ failed = {}
    /\ sent = <<>>
    /\ wire = <<>>
    /\ closedPending = {}
    /\ unmountedPending = {}
    /\ cancelled = {}

Init ==
    /\ InitApp
    /\ app \in {"Memento", "GeminiMatrix"}
    /\ call = NoCall

\* What a handler run may change, and its write-back.
Work ==
    [session |-> session, invocations |-> invocations, timers |-> timers, tasks |-> tasks, data |-> data,
     cellStyles |-> cellStyles, htmlString |-> htmlString, issued |-> issued, failed |-> failed]

Commit(c) ==
    /\ timers' = c.timers
    /\ tasks' = c.tasks
    /\ data' = c.data
    /\ cellStyles' = c.cellStyles
    /\ htmlString' = c.htmlString
    /\ issued' = c.issued
    /\ failed' = c.failed

(***************************************************************************)
(* React: mount, commit of a re-render, unmount.                           *)
(***************************************************************************)
\* Mount: the useState initial values, then the two effects (setConfig, and
\* client.on); Memento's first effect also sets up the file system.
Mount(c) ==
    /\ c = app
    /\ component = "none"
    /\ mounts < MaxMounts
    /\ mounts' = mounts + 1
    /\ component' = c
    /\ config' = c
    /\ sessionConfig' = ConfigAfterSet(sessionConfig, c)
    /\ data' = IF c = "GeminiMatrix" THEN newMatrix(MatrixSize, "") ELSE <<>>
    /\ cellStyles' = IF c = "GeminiMatrix" THEN newMatrix(MatrixSize, DefaultStyle) ELSE <<>>
    /\ editCell' = <<>>
    /\ htmlString' = ""
    /\ files' = IF c = "Memento" /\ "Untitled.txt" \notin DOMAIN files
                  THEN PutFile(files, "Untitled.txt", <<>>) ELSE files
    /\ dirs' = IF c = "Memento" THEN dirs \cup {"Diary Folder"} ELSE dirs
    /\ onToolCall' = Closure(c, data', cellStyles')
    /\ handlers' = SubscribeEffect(handlers, NoHandler, onToolCall')
    /\ UNCHANGED <<call, app, session, invocations, calls, edits, tasks, timers, issued, failed, sent,
                   wire, history>>

\* A commit after data or cellStyles changed: useCallback returns a new
\* onToolCall and the subscribe effect swaps the handlers.
Rerender ==
    /\ component = "GeminiMatrix"
    /\ onToolCall # Closure(component, data, cellStyles)
    /\ onToolCall' = Closure(component, data, cellStyles)
    /\ handlers' = SubscribeEffect(handlers, onToolCall, onToolCall')
    /\ UNCHANGED <<call, app, session, config, sessionConfig, invocations, calls, component, mounts, data,
                   cellStyles, editCell, edits, htmlString, files, dirs, tasks, timers, issued,
                   failed, sent, wire, history>>

\* The ids whose handler invocation is suspended at an await or has its
\* timer set and not yet fired.
InHandler ==
    {tasks[i].id : i \in 1..Len(tasks)} \cup {timers[i].response.of : i \in 1..Len(timers)}

\* Unmount: the effect cleanup detaches the handler; timers and suspended
\* handler invocations stay.
Unmount ==
    /\ component # "none"
    /\ component' = "none"
    /\ handlers' = UnsubscribeEffect(handlers, onToolCall)
    /\ onToolCall' = NoHandler
    /\ data' = <<>>
    /\ cellStyles' = <<>>
    /\ editCell' = <<>>
    /\ htmlString' = ""
    /\ unmountedPending' = unmountedPending \cup (Pending(invocations) \cap InHandler)
    /\ UNCHANGED <<call, app, session, config, sessionConfig, invocations, calls, mounts, edits, files, dirs,
                   tasks, timers, issued, failed, sent, wire, closedPending, cancelled>>

(***************************************************************************)
(* The session.                                                            *)
(***************************************************************************)
Connect ==
    /\ session = "Idle"
    /\ session' = "AwaitingSetupAck"
    /\ sessionConfig' = config
    /\ wire' = wire \o ConnectFrames(config)
    /\ UNCHANGED <<call, app, config, invocations, calls, component, mounts, handlers, onToolCall, data,
                   cellStyles, editCell, edits, htmlString, files, dirs, tasks, timers, issued,
                   failed, sent, history>>

ReceiveSetupComplete ==
    /\ session = "AwaitingSetupAck"
    /\ session' = "Active"
    /\ UNCHANGED <<call, app, config, sessionConfig, invocations, calls, component, mounts, handlers,
                   onToolCall, data, cellStyles, editCell, edits, htmlString, files, dirs, tasks,
                   timers, issued, failed, sent, wire, history>>

\* disconnect() by the user; a Close message of the service or a transport
\* failure ends the session the same way.
Disconnect ==
    /\ session \in {"AwaitingSetupAck", "Active"}
    /\ session' = "Closed"
    /\ invocations' = CancelAll(invocations)
    /\ closedPending' = closedPending \cup Pending(invocations)
    /\ UNCHANGED <<call, app, config, sessionConfig, calls, component, mounts, handlers, onToolCall, data,
                   cellStyles, editCell, edits, htmlString, files, dirs, tasks, timers, issued,
                   failed, sent, wire, unmountedPending, cancelled>>

\* The function calls the service may put in a ToolCall message: calls of the
\* functions the session's configuration declares.
FunctionCalls(cfg) == UNION {{[name |-> nm, args |-> a] : a \in ArgsOf(nm)} : nm \in Declared(cfg)}

\* A ToolCall message of at most `most' function calls drawn from fcs: the
\* correlator marks its ids Pending and the event emitter calls the registered
\* handlers.
ReceiveToolCallFrom(limit, most, fcs) ==
    /\ session = "Active"
    /\ \E n \in 1..most :
         /\ Len(invocations) + n <= limit
         /\ \E batch \in [1..n -> fcs] :
              LET toolCall == [i \in 1..n |-> [id |-> Len(invocations) + i, name |-> batch[i].name,
                                               args |-> batch[i].args]]
              IN  /\ invocations' = invocations \o [i \in 1..n |-> "Pending"]
                  /\ calls' = Append(calls, [functionCalls |-> toolCall,
                                             handlers |-> handlers,
                                             component |-> component,
                                             awaiting |-> {tasks[i].id : i \in 1..Len(tasks)}])
                  /\ Commit(Emit([Work EXCEPT !.invocations = invocations'], handlers, toolCall))
    /\ UNCHANGED <<call, app, session, config, sessionConfig, component, mounts, handlers, onToolCall,
                   editCell, edits, files, dirs, sent, wire, history>>

\* The service calls the functions the session's configuration declares.
ReceiveToolCallUpTo(limit, most) == ReceiveToolCallFrom(limit, most, FunctionCalls(sessionConfig))

ReceiveToolCall == ReceiveToolCallUpTo(MaxInvocations, MaxBatch)

\* A ToolCallCancellation message.  Neither component listens to it.
ReceiveToolCallCancellation ==
    /\ session = "Active"
    /\ \E ids \in SUBSET Pending(invocations) :
         /\ ids # {}
         /\ invocations' = Cancel(invocations, ids)
         /\ cancelled' = cancelled \cup ids
    /\ UNCHANGED <<call, app, session, config, sessionConfig, calls, component, mounts, handlers, onToolCall,
                   data, cellStyles, editCell, edits, htmlString, files, dirs, tasks, timers,
                   issued, failed, sent, wire, closedPending, unmountedPending>>

(***************************************************************************)
(* A suspended handler invocation resumes after its await.                 *)
(***************************************************************************)
Resume(c, fs, t) ==
    CASE t.name = "ls" ->
           sendToolResponse(c, t.toolCall,
                            Response("files", <<>>, <<>>, listFilesInCurrentFolder(fs, dirs), t.id))
      [] t.name = "writeTo" ->
           sendToolResponse(c, t.toolCall, Response("response", <<"output">> \o Success, <<>>, {}, t.id))
      [] t.name = "readTxtFile" ->
           sendToolResponse(c, t.toolCall,
                            Response("contents", readTxtFile(fs, t.args.fileName), <<>>, {}, t.id))
      [] t.name = "gemini" ->
           sendToolResponse(c, t.toolCall, Response("response", <<"answer">>, <<>>, {}, t.id))
      [] OTHER -> c

\* args.append === undefined ? true : args.append
AppendFlag(args) == IF "append" \in DOMAIN args THEN args.append ELSE TRUE

FilesAfter(fs, t) ==
    CASE t.name = "writeTo" -> writeToFile(fs, t.args.fileName, t.args.contents, AppendFlag(t.args))
      [] t.name = "readTxtFile" -> readTxtFileCreates(fs, t.args.fileName)
      [] OTHER -> fs

TaskResolve ==
    /\ \E i \in 1..Len(tasks) :
         /\ files' = FilesAfter(files, tasks[i])
         /\ Commit(Resume([Work EXCEPT !.tasks = Remove(tasks, i)], files', tasks[i]))
    /\ UNCHANGED <<call, app, session, config, sessionConfig, invocations, calls, component, mounts, handlers,
                   onToolCall, editCell, edits, dirs, sent, wire, history>>

\* chatSession.sendMessage() rejects (network or API error): the async
\* function ends in a rejected promise and nothing is sent.
TaskReject ==
    /\ \E i \in 1..Len(tasks) :
         /\ tasks[i].name = "gemini"
         /\ Commit(Reject([Work EXCEPT !.tasks = Remove(tasks, i)], tasks[i]))
    /\ UNCHANGED <<call, app, session, config, sessionConfig, invocations, calls, component, mounts, handlers,
                   onToolCall, editCell, edits, files, dirs, sent, wire, history>>

(***************************************************************************)
(* A timer fires: the callback calls the client.                           *)
(***************************************************************************)
Entries(t) == [i \in 1..Len(t.ids) |-> [id |-> t.ids[i], response |-> t.response]]

CallRecord(t, outcome) ==
    [kind |-> t.kind, seq |-> t.seq, entries |-> Entries(t), text |-> t.text,
     issuedIn |-> t.issuedIn, ofStatus |-> t.ofStatus, firedIn |-> session, outcome |-> outcome]

Frame(t, entries) ==
    [kind |-> t.kind, seq |-> t.seq, entries |-> entries, text |-> t.text,
     config |-> sessionConfig, issuedIn |-> t.issuedIn, firedIn |-> session]

\* client.sendToolResponse: the entries of Pending ids are transmitted and
\* their ids become Answered.
ClientSendToolResponse(t) ==
    LET accepted == SelectSeq(Entries(t), LAMBDA e : Accepted(session, invocations, e.id))
    IN  /\ sent' = Append(sent, CallRecord(t, RespondOutcome(session, invocations, t.ids)))
        /\ wire' = IF accepted # <<>> THEN Append(wire, Frame(t, accepted)) ELSE wire
        /\ invocations' = [id \in 1..Len(invocations) |->
                             IF \E i \in 1..Len(accepted) : accepted[i].id = id
                               THEN "Answered" ELSE invocations[id]]

\* client.send([{text}])
ClientSend(t) ==
    /\ sent' = Append(sent, CallRecord(t, SendOutcome(session)))
    /\ wire' = IF SendOutcome(session) = "ok" THEN Append(wire, Frame(t, <<>>)) ELSE wire
    /\ invocations' = invocations

TimerFire ==
    /\ \E i \in NextTimers(timers) :
         /\ timers' = Remove(timers, i)
         /\ IF timers[i].kind = "toolResponse"
              THEN ClientSendToolResponse(timers[i])
              ELSE ClientSend(timers[i])
    /\ UNCHANGED <<call, app, session, config, sessionConfig, calls, component, mounts, handlers, onToolCall,
                   data, cellStyles, editCell, edits, htmlString, files, dirs, tasks, issued, failed,
                   history>>

(***************************************************************************)
(* The user edits a cell of the spreadsheet.                               *)
(***************************************************************************)
EditableCells == {<<0, 0>>}

NewValues == {"e"}

\* onClick of a cell: setEditCell({row, col})
ClickCell ==
    /\ component = "GeminiMatrix"
    /\ edits < MaxEdits
    /\ \E cell \in EditableCells :
         /\ HasRow(data, cell[1])
         /\ cell[2] < Len(data[cell[1] + 1])
         /\ editCell # cell
         /\ editCell' = cell
    /\ UNCHANGED <<call, app, session, config, sessionConfig, invocations, calls, component, mounts, handlers,
                   onToolCall, data, cellStyles, edits, htmlString, files, dirs, tasks, timers,
                   issued, failed, sent, wire, history>>

\* onSubmit of the editable cell (Enter or blur).
SubmitCell ==
    /\ component = "GeminiMatrix"
    /\ editCell # <<>>
    /\ edits < MaxEdits
    /\ \E newValue \in NewValues :
         LET rowIndex == editCell[1]
             colIndex == editCell[2]
         IN  Commit(sendUserMessage(
               [Work EXCEPT !.data = updateMatrixBlock(@, rowIndex, colIndex, rowIndex + 1,
                                                       colIndex + 1, newValue)],
               <<"<CHANGED CELL>", rowIndex, colIndex, newValue>>))
    /\ editCell' = <<>>
    /\ edits' = edits + 1
    /\ UNCHANGED <<call, app, session, config, sessionConfig, invocations, calls, component, mounts, handlers,
                   onToolCall, files, dirs, sent, wire, history>>

(***************************************************************************)
(* Spec: the tool-call traffic of both components over one session.        *)
(***************************************************************************)
Next ==
    \/ \E c \in {"Memento", "GeminiMatrix"} : Mount(c)
    \/ Rerender
    \/ Unmount
    \/ Connect
    \/ ReceiveSetupComplete
    \/ Disconnect
    \/ ReceiveToolCall
    \/ ReceiveToolCallCancellation
    \/ TaskResolve
    \/ TaskReject
    \/ TimerFire

Spec == Init /\ [][Next]_vars

(***************************************************************************)
(* SpecFew: the same, with fewer invocations in the session.               *)
(***************************************************************************)
ReceiveFewToolCalls == ReceiveToolCallUpTo(MaxFewInvocations, MaxBatch)

NextFew ==
    \/ \E c \in {"Memento", "GeminiMatrix"} : Mount(c)
    \/ Rerender
    \/ Unmount
    \/ Connect
    \/ ReceiveSetupComplete
    \/ Disconnect
    \/ ReceiveFewToolCalls
    \/ ReceiveToolCallCancellation
    \/ TaskResolve
    \/ TaskReject
    \/ TimerFire

SpecFew == Init /\ [][NextFew]_vars

(***************************************************************************)
(* SpecForeign: the service also calls a function no component has a case  *)
(* for.                                                                    *)
(***************************************************************************)
ForeignFunctionCalls == {[name |-> "render_altair", args |-> [json_graph |-> "{}"]]}

ReceiveAnyToolCall ==
    ReceiveToolCallFrom(MaxFewInvocations, MaxBatch, FunctionCalls(sessionConfig) \cup ForeignFunctionCalls)

NextForeign ==
    \/ \E c \in {"Memento", "GeminiMatrix"} : Mount(c)
    \/ Rerender
    \/ Unmount
    \/ Connect
    \/ ReceiveSetupComplete
    \/ Disconnect
    \/ ReceiveAnyToolCall
    \/ ReceiveToolCallCancellation
    \/ TaskResolve
    \/ TaskReject
    \/ TimerFire

SpecForeign == Init /\ [][NextForeign]_vars

(***************************************************************************)
(* SpecEdit: the spreadsheet with the user editing cells while the service *)
(* calls tools.                                                            *)
(***************************************************************************)
InitEdit == Init /\ app = "GeminiMatrix"

MountMatrix == mounts = 0 /\ Mount("GeminiMatrix")

\* ToolCall messages of one function call each.
ReceiveOneToolCall == ReceiveToolCallUpTo(MaxFewInvocations, 1)

NextEdit ==
    \/ MountMatrix
    \/ Rerender
    \/ Unmount
    \/ Connect
    \/ ReceiveSetupComplete
    \/ Disconnect
    \/ ReceiveOneToolCall
    \/ TaskResolve
    \/ TaskReject
    \/ TimerFire
    \/ ClickCell
    \/ SubmitCell

SpecEdit == InitEdit /\ [][NextEdit]_vars

(***************************************************************************)
(* SpecHelpers: one application of a helper function to arguments drawn    *)
(* from bounded sets.                                                      *)
(***************************************************************************)
\* Names of the cells of the matrices the helpers are applied to: every cell
\* of a matrix is different from every other.
CellNames ==
    << <<"c00", "c01", "c02", "c03">>, <<"c10", "c11", "c12", "c13">>,
       <<"c20", "c21", "c22", "c23">>, <<"c30", "c31", "c32", "c33">> >>

SquareMatrix(n) == [r \in 1..n |-> [c \in 1..n |-> CellNames[r][c]]]

\* Sequences over S of length lo..hi.
SeqsOf(S, lo, hi) == UNION {[1..k -> S] : k \in lo..hi}

\* Value blocks: rows may differ in length, entries may be undefined.
ValueBlocks == SeqsOf(SeqsOf({"v", Undefined}, 0, MaxBlock), 1, MaxBlock)

SelectCalls ==
    UNION {[fn : {"selectMatrixBlock"}, matrix : {SquareMatrix(n)}, startRow : 0..n, startCol : 0..n,
            endRow : -1..(n + 1), endCol : -1..(n + 1), done : {FALSE}] : n \in 1..MaxN}

UpdateCalls ==
    UNION {[fn : {"updateMatrixBlock"}, matrix : {SquareMatrix(n)}, startRow : -1..n, startCol : -1..n,
            endRow : -1..(n + 1), endCol : -1..(n + 1), value : {"v"}, done : {FALSE}] : n \in 1..MaxN}

SetCalls ==
    UNION {[fn : {"setMatrixBlock"}, matrix : {SquareMatrix(n)}, startRow : -1..n, startCol : -1..n,
            value : ValueBlocks, done : {FALSE}] : n \in 1..MaxN}

\* The arguments of a writeTo invocation, with appendFile omitted, true or false.
WriteArgs ==
    UNION {{[fileName |-> "notes.txt", contents |-> t],
            [fileName |-> "notes.txt", contents |-> t, appendFile |-> TRUE],
            [fileName |-> "notes.txt", contents |-> t, appendFile |-> FALSE]} :
           t \in SeqsOf({"c", "d"}, 1, MaxText)}

\* The file system before the write: the file is missing or holds some text.
FileSystems == {NoFiles} \cup {PutFile(NoFiles, "notes.txt", t) : t \in SeqsOf({"a", "b"}, 0, MaxText)}

WriteCalls == [fn : {"writeTo"}, fs : FileSystems, args : WriteArgs, done : {FALSE}]

InitHelpers ==
    /\ InitApp
    /\ call \in SelectCalls \cup UpdateCalls \cup SetCalls \cup WriteCalls
    /\ app = IF call.fn = "writeTo" THEN "Memento" ELSE "GeminiMatrix"

\* The matrix passed to a helper, after the call: the helper writes into
\* matrix.map(row => row.slice()), which shares no row with the argument.
ArgumentAfter(matrix, cloned) == matrix

Returned(c, throws, value, given) ==
    [fn |-> c.fn, args |-> c, done |-> TRUE, throws |-> throws, value |-> value, given |-> given]

ApplySelect ==
    /\ call.fn = "selectMatrixBlock" /\ ~call.done
    /\ LET throws == BlockThrows(call.matrix, call.startRow, call.startCol, call.endRow, call.endCol)
           value == selectMatrixBlock(call.matrix, call.startRow, call.startCol, call.endRow, call.endCol)
       IN  call' = Returned(call, throws, IF throws THEN <<>> ELSE value, call.matrix)
    /\ UNCHANGED <<app, session, config, sessionConfig, invocations, calls, component, mounts,
                   handlers, onToolCall, data, cellStyles, editCell, edits, htmlString, files, dirs,
                   tasks, timers, issued, failed, sent, wire, history>>

ApplyUpdate ==
    /\ call.fn = "updateMatrixBlock" /\ ~call.done
    /\ LET throws == BlockThrows(call.matrix, call.startRow, call.startCol, call.endRow, call.endCol)
           value == updateMatrixBlock(call.matrix, call.startRow, call.startCol, call.endRow,
                                      call.endCol, call.value)
       IN  call' = Returned(call, throws, IF throws THEN <<>> ELSE value,
                            ArgumentAfter(call.matrix, value))
    /\ UNCHANGED <<app, session, config, sessionConfig, invocations, calls, component, mounts,
                   handlers, onToolCall, data, cellStyles, editCell, edits, htmlString, files, dirs,
                   tasks, timers, issued, failed, sent, wire, history>>

ApplySet ==
    /\ call.fn = "setMatrixBlock" /\ ~call.done
    /\ LET value == setMatrixBlock(call.matrix, call.startRow, call.startCol, call.value)
       IN  call' = Returned(call, FALSE, value, ArgumentAfter(call.matrix, value))
    /\ UNCHANGED <<app, session, config, sessionConfig, invocations, calls, component, mounts,
                   handlers, onToolCall, data, cellStyles, editCell, edits, htmlString, files, dirs,
                   tasks, timers, issued, failed, sent, wire, history>>

\* The writeTo case of Memento's onToolCall, followed by the readTxtFile case
\* for the same file.
ApplyWriteThenRead ==
    /\ call.fn = "writeTo" /\ ~call.done
    /\ LET t == [name |-> "writeTo", args |-> call.args]
           fs == FilesAfter(call.fs, t)
       IN  call' = Returned(call, FALSE, readTxtFile(fs, call.args.fileName), fs)
    /\ UNCHANGED <<app, session, config, sessionConfig, invocations, calls, component, mounts,
                   handlers, onToolCall, data, cellStyles, editCell, edits, htmlString, files, dirs,
                   tasks, timers, issued, failed, sent, wire, history>>

NextHelpers ==
    \/ ApplySelect
    \/ ApplyUpdate
    \/ ApplySet
    \/ ApplyWriteThenRead

SpecHelpers == InitHelpers /\ [][NextHelpers]_vars

(***************************************************************************)
(* Properties.                                                             *)
(***************************************************************************)
Quiescent == tasks = <<>> /\ timers = <<>>

\* The positions <<call, entry>> of the entries for id in the toolResponse
\* calls the components made.
SentEntries(id) ==
    UNION {{<<i, j>> : j \in {j \in 1..Len(sent[i].entries) : sent[i].entries[j].id = id}} :
           i \in 1..Len(sent)}

\* The frames on the wire that carry an entry for id.
WireFrames(id) == {i \in 1..Len(wire) : \E j \in 1..Len(wire[i].entries) : wire[i].entries[j].id = id}

AllFunctionCalls == UNION {{calls[k].functionCalls[i] : i \in 1..Len(calls[k].functionCalls)} : k \in 1..Len(calls)}

NameOf(id) == (CHOOSE fc \in AllFunctionCalls : fc.id = id).name

CallIds(k) == {calls[k].functionCalls[i].id : i \in 1..Len(calls[k].functionCalls)}

\* The ToolCall message k was delivered to a mounted component whose switch
\* has a case for each of its function calls.
Handled(k) ==
    /\ calls[k].component # "none"
    /\ \A i \in 1..Len(calls[k].functionCalls) :
         calls[k].functionCalls[i].name \in Handles(calls[k].component)

\* C1: each invocation id of a ToolCall batch appears in exactly one entry of
\* the toolResponse frames the component sends; no id is answered twice.
C1_EachIdAnsweredOnce == \A id \in 1..Len(invocations) : Cardinality(SentEntries(id)) <= 1

\* C2: the response attached to an id is the result of the function that id
\* names: ls gets 'files', readTxtFile 'contents', getDataBlock 'data',
\* getStyleBlock 'styles', and never the result of another invocation.
C2_ResponseOfOwnInvocation ==
    \A i \in 1..Len(sent) : \A j \in 1..Len(sent[i].entries) :
        LET e == sent[i].entries[j] IN
        /\ e.response.of = e.id
        /\ NameOf(e.id) = "ls" => e.response.key = "files"
        /\ NameOf(e.id) = "readTxtFile" => e.response.key = "contents"
        /\ NameOf(e.id) = "getDataBlock" => e.response.key = "data"
        /\ NameOf(e.id) = "getStyleBlock" => e.response.key = "styles"

\* C3 as stated: an invocation that is pending when the session is
\* disconnected, or when the component unmounts, becomes Cancelled and no
\* toolResponse frame for it is transmitted afterwards.
C3_CloseOrUnmountCancels ==
    \A id \in closedPending \cup unmountedPending :
        invocations[id] = "Cancelled" /\ WireFrames(id) = {}

\* C3 amended: an invocation that is pending when the session is disconnected
\* becomes Cancelled, no toolResponse frame for it is transmitted afterwards,
\* and a respond made after the close transmits nothing.
C3_CloseCancels ==
    /\ \A id \in closedPending : invocations[id] = "Cancelled" /\ WireFrames(id) = {}
    /\ \A i \in 1..Len(sent) : sent[i].firedIn = "Closed" => sent[i].outcome # "ok"
    /\ \A i \in 1..Len(wire) : wire[i].firedIn # "Closed"

C3_Witness ==
    \E i \in 1..Len(sent) :
        /\ sent[i].firedIn = "Closed"
        /\ sent[i].outcome = "noop"
        /\ \E j \in 1..Len(sent[i].entries) : sent[i].entries[j].id \in closedPending

\* C4: an id listed by a ToolCallCancellation is Cancelled, a later respond
\* for it is a no-op and not an error, and no entry for it is transmitted,
\* also when its handler finishes after the cancellation.
C4_CancelledNeverTransmitted ==
    /\ \A id \in cancelled : invocations[id] = "Cancelled" /\ WireFrames(id) = {}
    /\ \A i \in 1..Len(sent) :
         (sent[i].kind = "toolResponse"
            /\ \A j \in 1..Len(sent[i].entries) : sent[i].entries[j].id \in cancelled)
         => sent[i].outcome = "noop"

C4_Witness ==
    \E i \in 1..Len(sent) :
        /\ sent[i].firedIn = "Active"
        /\ sent[i].ofStatus = "Cancelled"
        /\ sent[i].outcome = "noop"
        /\ \E j \in 1..Len(sent[i].entries) : sent[i].entries[j].id \in cancelled

\* C5: the frames are handed to the client, and transmitted, in the order in
\* which sendToolResponse / sendUserMessage were called.
C5_FifoOrder ==
    /\ \A i, j \in 1..Len(sent) : i < j => sent[i].seq < sent[j].seq
    /\ \A i, j \in 1..Len(wire) : i < j => wire[i].seq < wire[j].seq
    /\ \A i \in 1..Len(sent) : \A j \in 1..Len(timers) : sent[i].seq < timers[j].seq

C5_Witness ==
    \E i, j \in 1..Len(wire) :
        i < j /\ wire[i].kind = "clientContent" /\ wire[j].kind = "toolResponse"

\* C6 as stated: a cell edit submitted while the session is not Active never
\* results in a transmitted clientContent frame.
C6_EditOutsideActiveNeverTransmitted ==
    \A i \in 1..Len(wire) : wire[i].kind = "clientContent" => wire[i].issuedIn = "Active"

\* C6 amended: a send the client receives while the session is not Active
\* fails with NotConnectedError and transmits nothing: a cell edit whose timer
\* fires while the session is not Active is never transmitted.
C6_SendOutsideActiveFails ==
    /\ \A i \in 1..Len(sent) :
         (sent[i].kind = "clientContent" /\ sent[i].firedIn # "Active")
         => /\ sent[i].outcome = "NotConnectedError"
            /\ \A j \in 1..Len(wire) : wire[j].seq # sent[i].seq
    /\ \A i \in 1..Len(wire) : wire[i].kind = "clientContent" => wire[i].firedIn = "Active"

C6_Witness ==
    \E i \in 1..Len(sent) :
        /\ sent[i].kind = "clientContent"
        /\ sent[i].firedIn # "Active"
        /\ sent[i].outcome = "NotConnectedError"

\* C7: the configuration is sent once, as the first frame of the session; no
\* other frame precedes it, and a setConfig of a mounting component does not
\* change the configuration of the session.
C7_ConfigSentOnceFirst ==
    /\ session = "Idle" <=> wire = <<>>
    /\ wire # <<>> =>
         /\ wire[1].kind = "setup"
         /\ sessionConfig = wire[1].config
         /\ \A i \in 2..Len(wire) : wire[i].kind # "setup" /\ wire[i].config = wire[1].config

C7_Witness ==
    /\ session = "Active"
    /\ component # "none"
    /\ config # sessionConfig
    /\ Len(wire) >= 2

\* C8: at most one handler of the component is registered at any time; every
\* ToolCall message that arrives while the component is mounted is handled
\* exactly once, also after GeminiMatrix swapped its handler.
C8_OneHandler ==
    /\ Cardinality(handlers) <= 1
    /\ handlers = IF component = "none" THEN {} ELSE {onToolCall}
    /\ \A k \in 1..Len(calls) :
         Cardinality(calls[k].handlers) = IF calls[k].component = "none" THEN 0 ELSE 1

C8_Witness ==
    \E k \in 1..Len(calls) :
        /\ calls[k].component = "GeminiMatrix"
        /\ \E h \in calls[k].handlers : h.data # newMatrix(MatrixSize, "")

\* C9: when a ToolCall message arrives while an invocation of an earlier
\* message is still awaiting its result, both are handled and, once nothing
\* is left to run, the responses of both have been sent.
C9_BothAnswered ==
    \A k1, k2 \in 1..Len(calls) :
        (/\ k1 < k2
         /\ Handled(k1) /\ Handled(k2)
         /\ calls[k2].awaiting \cap CallIds(k1) # {}
         /\ session = "Active"
         /\ (CallIds(k1) \cup CallIds(k2)) \cap cancelled = {}
         /\ Quiescent)
        => \A id \in CallIds(k1) \cup CallIds(k2) : WireFrames(id) # {}

\* C10: a ToolCall message with one invocation of a handled function, in a
\* session that stays Active, ends with exactly one toolResponse frame for it,
\* with exactly one entry, the invocation's id.
C10_SingleInvocationAnswered ==
    \A k \in 1..Len(calls) :
        (/\ Len(calls[k].functionCalls) = 1
         /\ Handled(k)
         /\ session = "Active"
         /\ CallIds(k) \cap cancelled = {}
         /\ Quiescent)
        => \A id \in CallIds(k) :
             /\ Cardinality(WireFrames(id)) = 1
             /\ \A i \in WireFrames(id) : Len(wire[i].entries) = 1

\* C11: a getDataBlock or getStyleBlock invocation returns the block as the
\* set invocations processed before it, in the same batch or in an earlier
\* message, have left it.
C11_GetSeesEarlierSets ==
    \A i \in 1..Len(sent) : \A j \in 1..Len(sent[i].entries) :
        LET e == sent[i].entries[j] IN
        (e.response.of = e.id /\ NameOf(e.id) \in {"getDataBlock", "getStyleBlock"})
        => e.response.rows = e.response.now

\* C12: while GeminiMatrix is mounted, the data matrix and the style matrix
\* each have exactly 10 rows of exactly 10 cells, whatever setDataBlock and
\* setStylesBlock calls and cell edits came before.
C12_AlwaysTenByTen ==
    component = "GeminiMatrix" =>
        /\ Len(data) = MatrixSize /\ Len(cellStyles) = MatrixSize
        /\ \A r \in 1..Len(data) : Len(data[r]) = MatrixSize
        /\ \A r \in 1..Len(cellStyles) : Len(cellStyles[r]) = MatrixSize

\* The end index a caller of selectMatrixBlock means: -1 stands for the end
\* of the matrix, any other end index is exclusive.
EndMeant(end, n) == IF end = -1 THEN n ELSE end

\* C13 as stated: for an n x n matrix and start indices in 0..n, the result
\* of selectMatrixBlock has (endRow - startRow) rows of (endCol - startCol)
\* cells, -1 standing for the end of the matrix, and its cell (i, j) is
\* matrix[startRow + i][startCol + j].
C13_SelectBlockAnyEnd ==
    (call.fn = "selectMatrixBlock" /\ call.done) =>
        LET a == call.args
            n == Len(a.matrix)
            rows == EndMeant(a.endRow, n) - a.startRow
            cols == EndMeant(a.endCol, n) - a.startCol
        IN  /\ ~call.throws
            /\ Len(call.value) = rows
            /\ \A i \in 1..Len(call.value) :
                 /\ Len(call.value[i]) = cols
                 /\ \A j \in 1..Len(call.value[i]) :
                      /\ a.startRow + i <= n /\ a.startCol + j <= n
                      /\ call.value[i][j] = a.matrix[a.startRow + i][a.startCol + j]

\* C13 amended: the same for end indices between the start index and n; an
\* end index before the start index gives no rows (no cells), an end column
\* past n gives undefined cells past the last column, and an end row past n
\* makes the call throw unless the column range is empty.
C13_SelectBlock ==
    (call.fn = "selectMatrixBlock" /\ call.done) =>
        LET a == call.args
            n == Len(a.matrix)
            endRow == EndMeant(a.endRow, n)
            endCol == EndMeant(a.endCol, n)
            rows == IF endRow > a.startRow THEN endRow - a.startRow ELSE 0
            cols == IF endCol > a.startCol THEN endCol - a.startCol ELSE 0
        IN  /\ call.throws <=> (endRow > n /\ cols > 0)
            /\ ~call.throws =>
                 /\ Len(call.value) = rows
                 /\ \A i \in 1..Len(call.value) :
                      /\ Len(call.value[i]) = cols
                      /\ \A j \in 1..Len(call.value[i]) :
                           call.value[i][j] = IF a.startCol + j <= n
                                                THEN a.matrix[a.startRow + i][a.startCol + j]
                                                ELSE Undefined

C13_Witness ==
    /\ call.fn = "selectMatrixBlock" /\ call.done /\ ~call.throws
    /\ call.args.endRow = -1 /\ call.args.endCol = 1
    /\ call.args.startRow = 0 /\ call.args.startCol = 0
    /\ Len(call.args.matrix) = MaxN
    /\ Len(call.value) = MaxN /\ Len(call.value[1]) = 1

\* C14: a readTxtFile processed after a writeTo returns the old text followed
\* by the written contents when appendFile is true or omitted, and exactly
\* the written contents when appendFile is false.
C14_WriteAppendsOrReplaces ==
    (call.fn = "writeTo" /\ call.done) =>
        LET a == call.args.args
            old == FileText(call.args.fs, a.fileName)
        IN  call.value = IF "appendFile" \in DOMAIN a /\ ~a.appendFile
                           THEN a.contents
                           ELSE old \o a.contents

\* Applying the block of a set invocation fails: a style is not valid JSON,
\* or the block reaches past the last row of the matrix.
SetFails(fc) ==
    \/ /\ fc.name = "setStylesBlock"
       /\ \E i \in 1..Len(fc.args.value) : \E j \in 1..Len(fc.args.value[i]) :
            JSONparseThrows(fc.args.value[i][j])
    \/ resolve_index(fc.args.startRow, MatrixSize) + Len(fc.args.value) > MatrixSize

\* C15: once nothing is left to run in an Active session, every setDataBlock
\* or setStylesBlock invocation delivered to GeminiMatrix has been answered,
\* with {output: {sucess: true}} when its block was applied and with
\* {output: {exception}} when applying it failed.
C15_SetAnswered ==
    \A k \in 1..Len(calls) : \A n \in 1..Len(calls[k].functionCalls) :
        LET fc == calls[k].functionCalls[n] IN
        (/\ calls[k].component = "GeminiMatrix"
         /\ fc.name \in {"setDataBlock", "setStylesBlock"}
         /\ session = "Active"
         /\ fc.id \notin cancelled
         /\ Quiescent)
        => \E i \in 1..Len(sent) : \E j \in 1..Len(sent[i].entries) :
             LET e == sent[i].entries[j] IN
             /\ e.id = fc.id /\ e.response.of = fc.id
             /\ e.response.key = "output"
             /\ e.response.text = IF SetFails(fc) THEN <<"exception">> ELSE Success

\* The ToolCall message k holds no invocation of a function that the
\* component it was delivered to handles.
NoneHandled(k) ==
    \A n \in 1..Len(calls[k].functionCalls) :
        calls[k].functionCalls[n].name \notin Handles(calls[k].component)

\* The invocation a sendToolResponse call was made for names a function the
\* component that received it handles.
OfHandled(id) ==
    \E k \in 1..Len(calls) : id \in CallIds(k) /\ NameOf(id) \in Handles(calls[k].component)

\* C16: every toolResponse a component sends, or has a timer set for, was
\* made for an invocation of a function it handles; the ids of a batch
\* without such an invocation are in no response and stay Pending until a
\* cancellation or the close of the session makes them Cancelled.
C16_OnlyHandledAnswered ==
    /\ \A i \in 1..Len(sent) :
         sent[i].kind = "toolResponse" => OfHandled(sent[i].entries[1].response.of)
    /\ \A i \in 1..Len(timers) :
         timers[i].kind = "toolResponse" => OfHandled(timers[i].response.of)
    /\ \A k \in 1..Len(calls) :
         NoneHandled(k) =>
           \A id \in CallIds(k) :
             /\ SentEntries(id) = {} /\ WireFrames(id) = {}
             /\ \A i \in 1..Len(timers) : \A j \in 1..Len(timers[i].ids) : timers[i].ids[j] # id
             /\ \/ invocations[id] = "Pending"
                \/ invocations[id] = "Cancelled" /\ id \in cancelled \cup closedPending

C16_Witness ==
    \E k \in 1..Len(calls) :
        /\ calls[k].component # "none"
        /\ NoneHandled(k)
        /\ session = "Active"
        /\ \A id \in CallIds(k) : invocations[id] = "Pending"

\* The cell (r, c) of the result of a helper equals the cell of its argument.
SameCell(r, c) ==
    /\ HasRow(call.value, r)
    /\ ArrayGet(call.value[r + 1], c) = ArrayGet(call.args.matrix[r + 1], c)

\* The columns of row r of the argument or of the result.
ColumnsOf(r) ==
    0..((IF HasRow(call.value, r) /\ Len(call.value[r + 1]) > Len(call.args.matrix[r + 1])
           THEN Len(call.value[r + 1]) ELSE Len(call.args.matrix[r + 1])) - 1)

\* The value block of setMatrixBlock has a defined entry for the cell (r, c).
EntryFor(a, r, c) ==
    LET i == r - resolve_index(a.startRow, Len(a.matrix))
        j == c - resolve_index(a.startCol, Len(a.matrix))
    IN  /\ i >= 0 /\ i < Len(a.value)
        /\ j >= 0 /\ j < Len(a.value[i + 1])
        /\ a.value[i + 1][j + 1] # Undefined

\* The cell (r, c) is in the block [startRow, endRow) x [startCol, endCol)
\* of updateMatrixBlock.
InBlock(a, r, c) ==
    /\ r >= resolve_index(a.startRow, Len(a.matrix)) /\ r < resolve_index(a.endRow, Len(a.matrix))
    /\ c >= resolve_index(a.startCol, Len(a.matrix)) /\ c < resolve_index(a.endCol, Len(a.matrix))

====
